---------------------------- MODULE Spec2Model ----------------------------
(***************************************************************************)
(* A model of gdump (src/src/gdump/__main__.py): the login step, the       *)
(* per-day fetch tasks run on a thread pool, the row extractor             *)
(* parse_courses, the time refiner refine_courses and the calendar builder *)
(* create_calendar.                                                        *)
(*                                                                         *)
(* Python strings are sequences of one-character strings, so that title(), *)
(* replace(), split(), strip(), strftime() and strptime() are computed on  *)
(* the characters as the library computes them.                            *)
(***************************************************************************)
EXTENDS Integers, Sequences, FiniteSets, TLC

VARIABLES pc, cfg, session_id, login, error, current_date, all_dates, tasks, fetched,
          all_courses, calendar, file, cls, prs

vars == <<pc, cfg, session_id, login, error, current_date, all_dates, tasks, fetched,
          all_courses, calendar, file, cls, prs>>

mainVars == <<pc, cfg, session_id, login, error, current_date, all_dates, tasks, fetched,
              all_courses, calendar, file>>

---------------------------------------------------------------------------
(* Bounds of the model.                                                    *)

\* Longest requested range is MaxSpan + 1 days (end_date = start_date + MaxSpan).
MaxSpan == 2
\* Worker threads of the pool (the host decides the real number).
MaxWorkers == 2
\* Words in a course name given to the classifier specification.
MaxWords == 2
\* List rows in a page given to the extractor specification.
MaxRows == 2

---------------------------------------------------------------------------
(* Python str operations.                                                  *)

Lowers == <<"a", "b", "c", "d", "e", "f", "g", "h", "i", "j", "k", "l", "m", "n", "o", "p", "q", "r", "s", "t", "u", "v", "w", "x", "y", "z">>
Uppers == <<"A", "B", "C", "D", "E", "F", "G", "H", "I", "J", "K", "L", "M", "N", "O", "P", "Q", "R", "S", "T", "U", "V", "W", "X", "Y", "Z">>
Digits == <<"0", "1", "2", "3", "4", "5", "6", "7", "8", "9">>

RECURSIVE Zip(_, _, _)
\* The function that maps keys[j] to vals[j] for j >= i.
Zip(keys, vals, i) ==
    IF i = Len(keys) THEN keys[i] :> vals[i]
    ELSE (keys[i] :> vals[i]) @@ Zip(keys, vals, i + 1)

ToUpper == Zip(Lowers, Uppers, 1)
ToLower == Zip(Uppers, Lowers, 1)
DigitValue == Zip(Digits, [i \in 1..Len(Digits) |-> i - 1], 1)

islower(c) == c \in DOMAIN ToUpper
isupper(c) == c \in DOMAIN ToLower
iscased(c) == islower(c) \/ isupper(c)
isdigit(c) == c \in DOMAIN DigitValue

upper(c) == IF islower(c) THEN ToUpper[c] ELSE c
lower(c) == IF isupper(c) THEN ToLower[c] ELSE c

\* str.upper()
str_upper(s) == [i \in 1..Len(s) |-> upper(s[i])]

\* str.title(): the first cased character of every run of cased characters is
\* upper-cased, the others of the run are lower-cased.
title(s) ==
    [i \in 1..Len(s) |->
        IF i > 1 /\ iscased(s[i - 1]) THEN lower(s[i]) ELSE upper(s[i])]

startswith(s, p) == Len(p) <= Len(s) /\ SubSeq(s, 1, Len(p)) = p
endswith(s, p) == Len(p) <= Len(s) /\ SubSeq(s, Len(s) - Len(p) + 1, Len(s)) = p
Drop(s, n) == SubSeq(s, n + 1, Len(s))

RECURSIVE replace(_, _, _)
\* str.replace(old, new) for a non-empty old: left to right, non-overlapping.
replace(s, old, new) ==
    IF Len(s) < Len(old) THEN s
    ELSE IF startswith(s, old) THEN new \o replace(Drop(s, Len(old)), old, new)
    ELSE <<s[1]>> \o replace(Tail(s), old, new)

RECURSIVE find(_, _, _)
\* str.find(sub) for a non-empty sub, from position i (1-based); 0 when sub
\* does not occur.
find(s, sub, i) ==
    IF i + Len(sub) - 1 > Len(s) THEN 0
    ELSE IF s[i] = sub[1] /\ SubSeq(s, i, i + Len(sub) - 1) = sub THEN i
    ELSE find(s, sub, i + 1)

\* sub in s
contains(s, sub) == find(s, sub, 1) # 0

RECURSIVE rfind(_, _, _)
rfind(s, sub, i) ==
    IF i < 1 THEN 0
    ELSE IF s[i] = sub[1] /\ SubSeq(s, i, i + Len(sub) - 1) = sub THEN i
    ELSE rfind(s, sub, i - 1)

RECURSIVE split(_, _)
\* str.split(sep): every piece, empty ones included.
split(s, sep) ==
    LET k == find(s, sep, 1)
    IN  IF k = 0 THEN <<s>>
        ELSE <<SubSeq(s, 1, k - 1)>> \o split(Drop(s, k + Len(sep) - 1), sep)

\* str.split(sep, 1)
split1(s, sep) ==
    LET k == find(s, sep, 1)
    IN  IF k = 0 THEN <<s>>
        ELSE <<SubSeq(s, 1, k - 1), Drop(s, k + Len(sep) - 1)>>

\* str.rsplit(sep, 1)
rsplit1(s, sep) ==
    LET k == rfind(s, sep, Len(s) - Len(sep) + 1)
    IN  IF k = 0 THEN <<s>>
        ELSE <<SubSeq(s, 1, k - 1), Drop(s, k + Len(sep) - 1)>>

RECURSIVE lstrip(_, _)
lstrip(s, chars) ==
    IF s # <<>> /\ s[1] \in chars THEN lstrip(Tail(s), chars) ELSE s

RECURSIVE rstrip(_, _)
rstrip(s, chars) ==
    IF s # <<>> /\ s[Len(s)] \in chars THEN rstrip(SubSeq(s, 1, Len(s) - 1), chars)
    ELSE s

Whitespace == {" ", "\n", "\t"}
\* str.strip() and str.strip(chars)
strip(s) == lstrip(rstrip(s, Whitespace), Whitespace)
strip_chars(s, chars) == lstrip(rstrip(s, chars), chars)

removeprefix(s, p) == IF startswith(s, p) THEN Drop(s, Len(p)) ELSE s
removesuffix(s, p) ==
    IF p # <<>> /\ endswith(s, p) THEN SubSeq(s, 1, Len(s) - Len(p)) ELSE s

\* list[a:b] with 0-based a and exclusive b, clipped like a Python slice.
slice(l, a, b) == SubSeq(l, a + 1, IF b < Len(l) THEN b ELSE Len(l))

---------------------------------------------------------------------------
(* create_calendar: the display title and the category tag of a course.    *)

\* The same chain with a slip in one literal: "Ii" is rewritten to "III".
ReplacementsTypo ==
    << <<<<"A", "p">>, <<"A", "P">>>>, <<<<"A", "m">>, <<"A", "m">>>>, <<<<"C", "p">>, <<"C", "P">>>>,
       <<<<"A", "m">>, <<"A", "M">>>>, <<<<"T", "v">>, <<"T", "V">>>>, <<<<"A", "b">>, <<"A", "B">>>>,
       <<<<"A", "i">>, <<"A", "I">>>>, <<<<"B", "c">>, <<"B", "C">>>>, <<<<"I", "b">>, <<"I", "B">>>>,
       <<<<"I", "i">>, <<"I", "I", "I">>>>, <<<<"I", "i", "i">>, <<"I", "I", "I">>>>, <<<<"I", "v">>, <<"I", "V">>>> >>

\* The literal replacements of lines 233-244, in the order of the code.
Replacements ==
    << <<<<"A", "p">>, <<"A", "P">>>>, <<<<"A", "m">>, <<"A", "m">>>>, <<<<"C", "p">>, <<"C", "P">>>>,
       <<<<"A", "m">>, <<"A", "M">>>>, <<<<"T", "v">>, <<"T", "V">>>>, <<<<"A", "b">>, <<"A", "B">>>>,
       <<<<"A", "i">>, <<"A", "I">>>>, <<<<"B", "c">>, <<"B", "C">>>>, <<<<"I", "b">>, <<"I", "B">>>>,
       <<<<"I", "i">>, <<"I", "I">>>>, <<<<"I", "i", "i">>, <<"I", "I", "I">>>>, <<<<"I", "v">>, <<"I", "V">>>> >>

RECURSIVE replace_all(_, _, _)
replace_all(s, pairs, i) ==
    IF i > Len(pairs) THEN s
    ELSE replace_all(replace(s, pairs[i][1], pairs[i][2]), pairs, i + 1)

\* course_name_fancy of lines 232-244.
course_name_fancy(course_name) == replace_all(title(course_name), Replacements, 1)

Languages ==
    {<<"S", "p", "a", "n", "i", "s", "h">>, <<"F", "r", "e", "n", "c", "h">>, <<"G", "e", "r", "m", "a", "n">>, <<"C", "h", "i", "n", "e", "s", "e">>, <<"J", "a", "p", "a", "n", "e", "s", "e">>, <<"A", "r", "a", "b", "i", "c">>,
     <<"R", "u", "s", "s", "i", "a", "n">>, <<"I", "t", "a", "l", "i", "a", "n">>, <<"P", "o", "r", "t", "u", "g", "u", "e", "s", "e">>, <<"K", "o", "r", "e", "a", "n">>, <<"L", "a", "t", "i", "n">>, <<"G", "r", "e", "e", "k">>,
     <<"H", "e", "b", "r", "e", "w">>, <<"H", "i", "n", "d", "i">>}

\* The if/elif chain of lines 246-304 with the Math branch tested before AP/IB.
class_emoji_math_first(f) ==
    IF contains(f, <<"M", "a", "t", "h">>) \/ contains(f, <<"A", "l", "g", "e", "b", "r", "a">>) \/ contains(f, <<"G", "e", "o", "m", "e", "t", "r", "y">>)
         \/ contains(f, <<"C", "a", "l", "c", "u", "l", "u", "s">>) \/ contains(f, <<"S", "t", "a", "t", "i", "s", "t", "i", "c", "s">>)
         \/ contains(f, <<"P", "r", "e", "c", "a", "l", "c">>) THEN "division"
    ELSE IF contains(f, <<"A", "P">>) \/ contains(f, <<"I", "B">>) THEN "books"
    ELSE IF contains(f, <<"S", "c", "i", "e", "n", "c", "e">>) \/ contains(f, <<"B", "i", "o", "l", "o", "g", "y">>)
         \/ contains(f, <<"C", "h", "e", "m", "i", "s", "t", "r", "y">>) THEN "microscope"
    ELSE "graduation_cap"

\* class_emoji of lines 246-304: the if/elif chain, in the order of the code.
class_emoji(f) ==
    IF contains(f, <<"A", "P">>) \/ contains(f, <<"I", "B">>) THEN "books"
    ELSE IF contains(f, <<"M", "a", "t", "h">>) \/ contains(f, <<"A", "l", "g", "e", "b", "r", "a">>) \/ contains(f, <<"G", "e", "o", "m", "e", "t", "r", "y">>)
         \/ contains(f, <<"C", "a", "l", "c", "u", "l", "u", "s">>) \/ contains(f, <<"S", "t", "a", "t", "i", "s", "t", "i", "c", "s">>)
         \/ contains(f, <<"P", "r", "e", "c", "a", "l", "c">>) THEN "division"
    ELSE IF contains(f, <<"S", "c", "i", "e", "n", "c", "e">>) \/ contains(f, <<"B", "i", "o", "l", "o", "g", "y">>)
         \/ contains(f, <<"C", "h", "e", "m", "i", "s", "t", "r", "y">>) THEN "microscope"
    ELSE IF contains(f, <<"H", "i", "s", "t", "o", "r", "y">>) \/ contains(f, <<"G", "e", "o", "g", "r", "a", "p", "h", "y">>) THEN "globe"
    ELSE IF contains(f, <<"E", "n", "g", "l", "i", "s", "h">>) \/ contains(f, <<"L", "i", "t", "e", "r", "a", "t", "u", "r", "e">>) THEN "memo"
    ELSE IF contains(f, <<"A", "r", "t">>) \/ contains(f, <<"M", "u", "s", "i", "c">>) THEN "palette"
    ELSE IF contains(f, <<"P", "h", "y", "s", "i", "c", "a", "l", " ", "E", "d", "u", "c", "a", "t", "i", "o", "n">>) \/ contains(f, <<"P", "E">>) THEN "medal"
    ELSE IF contains(f, <<"C", "o", "m", "p", "u", "t", "e", "r">>) \/ contains(f, <<"P", "r", "o", "g", "r", "a", "m", "m", "i", "n", "g">>) THEN "laptop"
    ELSE IF contains(f, <<"L", "a", "n", "g", "u", "a", "g", "e">>) \/ (\E lang \in Languages : contains(f, lang))
         THEN "globe_with_meridians"
    ELSE IF contains(f, <<"B", "i", "o", "t", "e", "c", "h", "n", "o", "l", "o", "g", "y">>) THEN "dna"
    ELSE IF contains(f, <<"F", "o", "r", "e", "n", "s", "i", "c", "s">>) THEN "detective"
    ELSE IF contains(f, <<"E", "c", "o", "n", "o", "m", "i", "c", "s">>) THEN "chart_increasing"
    ELSE IF contains(f, <<"P", "s", "y", "c", "h", "o", "l", "o", "g", "y">>) THEN "brain"
    ELSE IF contains(f, <<"E", "n", "g", "i", "n", "e", "e", "r", "i", "n", "g">>) THEN "tools"
    ELSE IF contains(f, <<"E", "n", "v", "i", "r", "o", "n", "m", "e", "n", "t", "a", "l", " ", "S", "c", "i", "e", "n", "c", "e">>) THEN "seedling"
    ELSE IF contains(f, <<"P", "h", "i", "l", "o", "s", "o", "p", "h", "y">>) THEN "thinking_face"
    ELSE IF contains(f, <<"B", "u", "s", "i", "n", "e", "s", "s">>) THEN "briefcase"
    ELSE IF contains(f, <<"L", "a", "w">>) THEN "scales"
    ELSE IF contains(f, <<"M", "e", "d", "i", "c", "i", "n", "e">>) THEN "stethoscope"
    ELSE IF contains(f, <<"L", "u", "n", "c", "h">>) THEN "fork_and_knife"
    ELSE IF contains(f, <<"S", "t", "u", "d", "y", " ", "H", "a", "l", "l">>) THEN "books"
    ELSE IF contains(f, <<"F", "r", "e", "e">>) THEN "clock"
    ELSE IF contains(f, <<"A", "s", "s", "e", "m", "b", "l", "y">>) THEN "party"
    ELSE IF contains(f, <<"A", "d", "v", "i", "s", "o", "r", "y">>) THEN "people"
    ELSE IF contains(f, <<"H", "o", "m", "e", "r", "o", "o", "m">>) THEN "house"
    ELSE IF contains(f, <<"M", "e", "e", "t", "i", "n", "g">>) THEN "people"
    ELSE IF contains(f, <<"B", "r", "e", "a", "k">>) THEN "coffee"
    ELSE "graduation_cap"

\* The Event of lines 306-320 built from one refined course.
Event(course) ==
    LET fancy == course_name_fancy(course.course_name)
    IN  [name |-> <<class_emoji(fancy), " ">> \o fancy,
         begin |-> course.start_time,
         end |-> course.end_time,
         description |-> [block |-> course.block, teacher |-> course.teacher,
                          room |-> course.room],
         location |-> course.room,
         color |-> str_upper(course.color)]

\* create_calendar: one event per refined course.
create_calendar(courses) == [i \in 1..Len(courses) |-> Event(courses[i])]

---------------------------------------------------------------------------
(* datetime: dates, strftime("%m/%d/%Y"), strptime.                        *)

IsLeap(y) == (y % 4 = 0 /\ y % 100 # 0) \/ y % 400 = 0

DaysInMonth(y, m) ==
    IF m = 2 THEN (IF IsLeap(y) THEN 29 ELSE 28)
    ELSE IF m \in {4, 6, 9, 11} THEN 30 ELSE 31

\* date + timedelta(days=1)
AddDay(date) ==
    IF date.d < DaysInMonth(date.y, date.m) THEN [date EXCEPT !.d = @ + 1]
    ELSE IF date.m < 12 THEN [y |-> date.y, m |-> date.m + 1, d |-> 1]
    ELSE [y |-> date.y + 1, m |-> 1, d |-> 1]

RECURSIVE AddDays(_, _)
AddDays(date, n) == IF n = 0 THEN date ELSE AddDays(AddDay(date), n - 1)

\* date - timedelta(days=1)
SubDay(date) ==
    IF date.d > 1 THEN [date EXCEPT !.d = @ - 1]
    ELSE IF date.m > 1
         THEN [y |-> date.y, m |-> date.m - 1, d |-> DaysInMonth(date.y, date.m - 1)]
    ELSE [y |-> date.y - 1, m |-> 12, d |-> 31]

\* a <= b on datetimes at midnight
DateLE(a, b) ==
    \/ a.y < b.y
    \/ a.y = b.y /\ a.m < b.m
    \/ a.y = b.y /\ a.m = b.m /\ a.d <= b.d

DigitChar(n) == Digits[n + 1]
Pad2(n) == <<DigitChar(n \div 10), DigitChar(n % 10)>>
Pad4(n) == <<DigitChar(n \div 1000), DigitChar((n \div 100) % 10),
             DigitChar((n \div 10) % 10), DigitChar(n % 10)>>

\* date.strftime("%m/%d/%Y")
strftime(date) == Pad2(date.m) \o <<"/">> \o Pad2(date.d) \o <<"/">> \o Pad4(date.y)

AllDigits(s) == s # <<>> /\ \A i \in 1..Len(s) : isdigit(s[i])

RECURSIVE ToInt(_)
ToInt(s) ==
    IF s = <<>> THEN 0
    ELSE 10 * ToInt(SubSeq(s, 1, Len(s) - 1)) + DigitValue[s[Len(s)]]

NoDate == [y |-> 0, m |-> 0, d |-> 0]

\* datetime.strptime(s, "%m/%d/%Y"): ok is FALSE where strptime raises ValueError.
strptime_date(s) ==
    LET p == split(s, <<"/">>)
        wellformed ==
            /\ Len(p) = 3
            /\ AllDigits(p[1]) /\ Len(p[1]) <= 2
            /\ AllDigits(p[2]) /\ Len(p[2]) <= 2
            /\ AllDigits(p[3]) /\ Len(p[3]) = 4
        m == ToInt(p[1])
        d == ToInt(p[2])
        y == ToInt(p[3])
    IN  IF wellformed /\ m \in 1..12 /\ y >= 1 /\ d >= 1 /\ d <= DaysInMonth(y, m)
        THEN [ok |-> TRUE, date |-> [y |-> y, m |-> m, d |-> d]]
        ELSE [ok |-> FALSE, date |-> NoDate]

NoTime == [hour |-> 0, minute |-> 0]

\* datetime.strptime(s, "%I:%M%p").time(): the whole string has to match
\* (1[0-2]|0[1-9]|[1-9]):([0-5]\d|\d)(am|pm), letters in either case.
strptime_time(s) ==
    LET k == find(s, <<":">>, 1)
        I == SubSeq(s, 1, k - 1)
        rest == Drop(s, k)
        M == SubSeq(rest, 1, Len(rest) - 2)
        p == [i \in 1..2 |-> lower(rest[Len(rest) - 2 + i])]
        wellformed ==
            /\ k # 0
            /\ AllDigits(I) /\ Len(I) <= 2 /\ ToInt(I) \in 1..12
            /\ Len(rest) \in 3..4
            /\ AllDigits(M) /\ ToInt(M) \in 0..59
            /\ p \in {<<"a", "m">>, <<"p", "m">>}
        hour12 == ToInt(I)
        hour == IF p = <<"a", "m">> THEN (IF hour12 = 12 THEN 0 ELSE hour12)
                ELSE (IF hour12 = 12 THEN 12 ELSE hour12 + 12)
    IN  IF wellformed THEN [ok |-> TRUE, time |-> [hour |-> hour, minute |-> ToInt(M)]]
        ELSE [ok |-> FALSE, time |-> NoTime]

---------------------------------------------------------------------------
(* refine_courses                                                          *)

\* Zone names pytz.timezone() knows, among the ones the model offers.
KnownTimezones == {"America/New_York"}

\* tz.localize(datetime.combine(date, time)): the wall clock keeps its value.
localize(date, time, tz) ==
    [date |-> date, hour |-> time.hour, minute |-> time.minute, tz |-> tz]

RefinedCourse(course, date, tz) ==
    [block |-> course.block,
     start_time |-> localize(date, strptime_time(course.start_time).time, tz),
     end_time |-> localize(date, strptime_time(course.end_time).time, tz),
     course_name |-> course.course_name,
     teacher |-> course.teacher,
     room |-> course.room,
     color |-> course.color]

TimesOk(course) ==
    strptime_time(course.start_time).ok /\ strptime_time(course.end_time).ok

\* refine_courses with a row whose time does not parse left out instead of raising.
refine_courses_skip_bad(schedule_date, courses, timezone) ==
    LET date == strptime_date(schedule_date)
    IN  IF timezone \notin KnownTimezones
        THEN [raised |-> "UnknownTimeZoneError", value |-> <<>>]
        ELSE IF ~date.ok THEN [raised |-> "ValueError", value |-> <<>>]
        ELSE [raised |-> "none",
              value |-> [i \in 1..Len(SelectSeq(courses, TimesOk)) |->
                            RefinedCourse(SelectSeq(courses, TimesOk)[i], date.date,
                                          timezone)]]

\* refine_courses of lines 198-221: raised names the exception that leaves the
\* function, and then there is no return value.
refine_courses(schedule_date, courses, timezone) ==
    LET date == strptime_date(schedule_date)
    IN  IF timezone \notin KnownTimezones
        THEN [raised |-> "UnknownTimeZoneError", value |-> <<>>]
        ELSE IF ~date.ok THEN [raised |-> "ValueError", value |-> <<>>]
        ELSE IF \E i \in 1..Len(courses) : ~TimesOk(courses[i])
        THEN [raised |-> "ValueError", value |-> <<>>]
        ELSE [raised |-> "none",
              value |-> [i \in 1..Len(courses) |->
                            RefinedCourse(courses[i], date.date, timezone)]]

---------------------------------------------------------------------------
(* parse_courses, on the parsed document.                                  *)
(*                                                                         *)
(* A page is [closed, header, rows]: closed says that a                    *)
(* <td class="cellCenter">School Closed</td> exists; header is the first   *)
(* <td colspan="3"> (else colspan="2") with its text; rows are the         *)
(* <tr class="listrow"> elements. A row is [ncells, time_info, cell]:      *)
(* the number of its <td>s, the texts of the <div>s of its first <td>, and *)
(* its second <td>. A cell is [kind, text, inner]: kind "empty" has no     *)
(* contents, kind "text" starts with a text node (text is cell.text), kind *)
(* "tag" starts with an element whose contents are inner. A node of inner  *)
(* is [kind, text, style, children], a child is [name, text] with name <<>>*)
(* for a text node.                                                        *)

NoCourse ==
    [block |-> <<>>, start_time |-> <<>>, end_time |-> <<>>, course_name |-> <<>>,
     teacher |-> <<>>, room |-> <<>>, color |-> <<>>]

\* str(x) of a child of the course block
str_node(x) ==
    IF x.name = <<>> THEN x.text
    ELSE IF x.name = <<"b", "r">> THEN <<"<", "b", "r", "/", ">">>
    ELSE <<"<">> \o x.name \o <<">">> \o x.text \o <<"<", "/">> \o x.name \o <<">">>

NotBr(x) == x.name # <<"b", "r">>

\* [str(x).removeprefix("<b>").removesuffix("</b>").strip()
\*  for x in course_info.contents if x.name != "br"]
regular_details(course_info) ==
    LET kept == SelectSeq(course_info.children, NotBr)
    IN  [i \in 1..Len(kept) |->
            strip(removesuffix(removeprefix(str_node(kept[i]), <<"<", "b", ">">>), <<"<", "/", "b", ">">>))]

\* course_info.split("\n")[1:4]
fallback_details(text) == slice(split(text, <<"\n">>), 1, 4)

\* course_info.get("style", "").split("background-color:", 1)[-1].split(";")[0].strip()
style_color(style) ==
    LET a == split1(style, <<"b", "a", "c", "k", "g", "r", "o", "u", "n", "d", "-", "c", "o", "l", "o", "r", ":">>)
    IN  strip(split(a[Len(a)], <<";">>)[1])

\* The body of the loop of lines 149-183 for one row: raised names the
\* exception that leaves it, appended says whether a course was appended.
parse_row(row) ==
    IF row.ncells # 2 THEN [raised |-> "none", appended |-> FALSE, course |-> NoCourse]
    ELSE IF Len(row.time_info) < 3
    THEN [raised |-> "IndexError", appended |-> FALSE, course |-> NoCourse]
    ELSE IF row.cell.kind = "empty"
    THEN [raised |-> "IndexError", appended |-> FALSE, course |-> NoCourse]
    ELSE LET regular_schedule == row.cell.kind = "tag" IN
    IF regular_schedule /\ row.cell.inner = <<>>
    THEN [raised |-> "IndexError", appended |-> FALSE, course |-> NoCourse]
    ELSE LET node == row.cell.inner[1]
             truthy == IF regular_schedule
                       THEN node.kind = "tag" \/ node.text # <<>>
                       ELSE row.cell.text # <<>>
         IN
    IF ~(Len(row.time_info) >= 3 /\ truthy)
    THEN [raised |-> "none", appended |-> FALSE, course |-> NoCourse]
    ELSE IF regular_schedule /\ node.kind = "str"
    THEN [raised |-> "AttributeError", appended |-> FALSE, course |-> NoCourse]
    ELSE LET course_details == IF regular_schedule THEN regular_details(node)
                               ELSE fallback_details(row.cell.text)
         IN
    IF course_details = <<>>
    THEN [raised |-> "IndexError", appended |-> FALSE, course |-> NoCourse]
    ELSE [raised |-> "none", appended |-> TRUE,
          course |->
            [block |-> strip(row.time_info[1]),
             start_time |-> strip(row.time_info[2]),
             end_time |-> strip(row.time_info[3]),
             course_name |-> course_details[1],
             teacher |-> IF Len(course_details) > 1 THEN course_details[2] ELSE <<>>,
             room |-> IF Len(course_details) > 2
                      THEN removeprefix(course_details[3], <<"R", "o", "o", "m", ":", " ">>) ELSE <<>>,
             color |-> IF regular_schedule THEN style_color(node.style)
                       ELSE <<"#", "3", "a", "3", "a", "3", "a">>]]

RECURSIVE parse_rows(_, _, _)
\* The loop of lines 149-183: the courses appended so far, until a row raises.
parse_rows(rows, i, courses) ==
    IF i > Len(rows) THEN [raised |-> "none", courses |-> courses]
    ELSE LET r == parse_row(rows[i])
         IN  IF r.raised # "none" THEN [raised |-> r.raised, courses |-> <<>>]
             ELSE parse_rows(rows, i + 1,
                             IF r.appended THEN Append(courses, r.course) ELSE courses)

Returned(schedule_name, schedule_date, courses) ==
    [raised |-> "none", schedule_name |-> schedule_name,
     schedule_date |-> schedule_date, courses |-> courses]

Raised(exception) ==
    [raised |-> exception, schedule_name |-> <<>>, schedule_date |-> <<>>,
     courses |-> <<>>]

\* parse_courses of lines 131-185.
parse_courses(html_content) ==
    IF html_content.closed THEN Returned(<<"S", "c", "h", "o", "o", "l", " ", "C", "l", "o", "s", "e", "d">>, <<>>, <<>>)
    ELSE IF ~html_content.header.present THEN Returned(<<"N", "o", " ", "S", "c", "h", "e", "d", "u", "l", "e">>, <<>>, <<>>)
    ELSE LET schedule_info == rsplit1(strip(html_content.header.text), <<" ">>) IN
    IF Len(schedule_info) # 2 THEN Raised("ValueError")
    ELSE LET r == parse_rows(html_content.rows, 1, <<>>) IN
    IF r.raised # "none" THEN Raised(r.raised)
    ELSE Returned(schedule_info[1], strip_chars(schedule_info[2], {"(", ")"}), r.courses)

---------------------------------------------------------------------------
(* The pages the portal may answer with, and the inputs of a run.          *)

TextCell(text) == [kind |-> "text", text |-> text, inner |-> <<>>]
EmptyCell == [kind |-> "empty", text |-> <<>>, inner |-> <<>>]
Child(name, text) == [name |-> name, text |-> text]
Block(style, children) ==
    [kind |-> "tag", text |-> <<>>, style |-> style, children |-> children]
Regular(inner) == [kind |-> "tag", text |-> <<>>, inner |-> inner]
Row(ncells, time_info, cell) == [ncells |-> ncells, time_info |-> time_info, cell |-> cell]
Header(text) == [present |-> TRUE, text |-> text]
NoHeader == [present |-> FALSE, text |-> <<>>]
Page(closed, header, rows) == [closed |-> closed, header |-> header, rows |-> rows]

\* A regular course block: <b>name</b><br/>teacher<br/>Room: room
CourseCell(name, teacher, room) ==
    Regular(<<Block(<<"c", "o", "l", "o", "r", ":", "#", "f", "f", "f", ";", "b", "a", "c", "k", "g", "r", "o", "u", "n", "d", "-", "c", "o", "l", "o", "r", ":", " ", "#", "a", "1", "b", "2", "c", "3", ";">>,
                    <<Child(<<"b">>, name), Child(<<"b", "r">>, <<>>), Child(<<>>, teacher),
                      Child(<<"b", "r">>, <<>>), Child(<<>>, room)>>)>>)

BiologyRow == Row(2, <<<<"1">>, <<"8", ":", "0", "5", "A", "M">>, <<"8", ":", "5", "5", "A", "M">>>>,
                  CourseCell(<<"a", "p", " ", "b", "i", "o", "l", "o", "g", "y">>, <<"S", "m", "i", "t", "h">>, <<"R", "o", "o", "m", ":", " ", "2", "0", "4">>))
CalculusRow == Row(2, <<<<"2">>, <<"9", ":", "0", "0", "A", "M">>, <<"1", "2", ":", "3", "0", "P", "M">>>>,
                   CourseCell(<<"a", "p", " ", "c", "a", "l", "c", "u", "l", "u", "s", " ", "b", "c">>, <<"J", "o", "n", "e", "s">>, <<"R", "o", "o", "m", ":", " ", "1", "2">>))
BadTimeRow == Row(2, <<<<"3">>, <<"1", ":", "0", "0", "P", "M">>, <<"T", "B", "D">>>>,
                  CourseCell(<<"l", "u", "n", "c", "h">>, <<>>, <<>>))

DayHeader(name, date) == Header(name \o <<" ", "(">> \o strftime(date) \o <<")">>)

\* The answers of the portal to a request for one date, in the main specification.
Pages(date) ==
    { Page(TRUE, NoHeader, <<>>),
      Page(FALSE, NoHeader, <<>>),
      Page(FALSE, DayHeader(<<"D", "a", "y", " ", "1">>, date), <<BiologyRow>>),
      Page(FALSE, DayHeader(<<"D", "a", "y", " ", "2">>, AddDay(date)), <<CalculusRow>>),
      Page(FALSE, DayHeader(<<"D", "a", "y", " ", "3">>, date), <<BiologyRow, BadTimeRow>>),
      Page(FALSE, DayHeader(<<"S", "c", "h", "o", "o", "l", " ", "C", "l", "o", "s", "e", "d">>, date), <<BiologyRow>>),
      Page(FALSE, Header(<<"H", "o", "l", "i", "d", "a", "y">>), <<>>) }

NoPage == Page(FALSE, NoHeader, <<>>)

\* The answers to the login POST: whether the portal answered at all, the
\* status, whether a JSESSIONID cookie and a Location header came with it.
Login(reachable, status, cookie, location) ==
    [reachable |-> reachable, status |-> status, cookie |-> cookie,
     location |-> location]

Logins ==
    { Login(TRUE, 302, TRUE, TRUE), Login(TRUE, 302, FALSE, TRUE),
      Login(TRUE, 200, FALSE, FALSE), Login(TRUE, 500, FALSE, FALSE),
      Login(TRUE, 302, TRUE, FALSE), Login(FALSE, 0, FALSE, FALSE) }

\* No login response at hand: none was asked for, or get_session_id has returned.
NoLogin == Login(FALSE, 0, FALSE, TRUE)

BaseDate == [y |-> 2024, m |-> 9, d |-> 29]

\* The zones a run is given: the default of line 47.
Timezones == {"America/New_York"}

\* The requested range, from one day before start_date (an empty range) to
\* MaxSpan days after it, and the zone.
Configs ==
    { [start_date |-> BaseDate, end_date |-> AddDays(SubDay(BaseDate), n),
       timezone |-> tz] : n \in 0..(MaxSpan + 1), tz \in Timezones }

---------------------------------------------------------------------------
(* get_session_id and main up to the submission of the tasks.              *)

\* response.raise_for_status()
raise_for_status(status) == status >= 400 /\ status < 600

\* get_session_id without the test of lines 80-81: the lookup of line 82 raises.
get_session_id_unchecked(response) ==
    IF ~response.reachable THEN "ConnectionError"
    ELSE IF raise_for_status(response.status) THEN "HTTPError"
    ELSE IF ~response.cookie THEN "KeyError"
    ELSE IF ~response.location THEN "KeyError"
    ELSE "none"

\* get_session_id of lines 63-88: the exception that leaves it, "none" on return.
get_session_id(response) ==
    IF ~response.reachable THEN "ConnectionError"
    ELSE IF raise_for_status(response.status) THEN "HTTPError"
    ELSE IF ~response.cookie THEN "BadParameter"
    ELSE IF ~response.location THEN "KeyError"
    ELSE "none"

\* Lines 360-366: the login, skipped when a session id was supplied. On
\* success main holds a session id and the response is dropped.
Authenticate ==
    /\ pc = "auth"
    /\ LET e == IF session_id THEN "none" ELSE get_session_id(login)
       IN  /\ error' = e
           /\ pc' = IF e = "none" THEN "dates" ELSE "failed"
           /\ session_id' = (e = "none")
           /\ login' = IF e = "none" THEN NoLogin ELSE login
    /\ UNCHANGED <<cfg, current_date, all_dates, tasks, fetched, all_courses,
                   calendar, file, cls, prs>>

\* One turn of the loop of lines 396-399.
next_date(date) == AddDay(date)

LoopDates ==
    /\ pc = "dates"
    /\ IF DateLE(current_date, cfg.end_date)
       THEN /\ current_date' = next_date(current_date)
            /\ all_dates' = Append(all_dates, current_date')
            /\ pc' = pc
       ELSE /\ pc' = "submit"
            /\ UNCHANGED <<current_date, all_dates>>
    /\ UNCHANGED <<cfg, session_id, login, error, tasks, fetched, all_courses, calendar, file, cls, prs>>

NewTask(date) ==
    [date |-> date, st |-> "queued", exc |-> "none", html_content |-> NoPage,
     refined_courses |-> <<>>]

\* Lines 412-414: executor.submit for the next date; after the last one the
\* with block ends and main waits in shutdown(wait=True).
Submit ==
    /\ pc = "submit"
    /\ IF Len(tasks) < Len(all_dates)
       THEN /\ tasks' = Append(tasks, NewTask(all_dates[Len(tasks) + 1]))
            /\ pc' = pc
       ELSE /\ pc' = "join"
            /\ UNCHANGED tasks
    /\ UNCHANGED <<cfg, session_id, login, error, current_date, all_dates, fetched, all_courses,
                   calendar, file, cls, prs>>

---------------------------------------------------------------------------
(* do_task on the worker threads.                                          *)

Running(i) == tasks[i].st \in {"fetching", "extend"}
Finished(i) == tasks[i].st \in {"done", "raised"}

\* A worker takes the oldest queued work item and calls do_task: line 402 and
\* the request of get_day_html.
TaskStart(i) ==
    /\ tasks[i].st = "queued"
    /\ \A j \in 1..(i - 1) : tasks[j].st # "queued"
    /\ Cardinality({j \in 1..Len(tasks) : Running(j)}) < MaxWorkers
    /\ tasks' = [tasks EXCEPT ![i].st = "fetching"]
    /\ fetched' = Append(fetched, strftime(tasks[i].date))
    /\ UNCHANGED <<pc, cfg, session_id, login, error, current_date, all_dates, all_courses, calendar,
                   file, cls, prs>>

\* Line 406.
contributes(schedule_name, course_strings) ==
    /\ schedule_name # <<"S", "c", "h", "o", "o", "l", " ", "C", "l", "o", "s", "e", "d">> /\ schedule_name # <<"N", "o", " ", "S", "c", "h", "e", "d", "u", "l", "e">>
    /\ course_strings # <<>>

\* Lines 402-408 up to the extend, on the page html_content: the exception that
\* leaves do_task, whether the extend is reached, and the rows it is given.
Pipeline(date, html_content, timezone) ==
    LET schedule_date == strftime(date)
        parsed == parse_courses(html_content)
        refined == refine_courses(schedule_date, parsed.courses, timezone)
    IN  IF parsed.raised # "none"
        THEN [raised |-> parsed.raised, extends |-> FALSE, rows |-> <<>>]
        ELSE IF ~contributes(parsed.schedule_name, parsed.courses)
        THEN [raised |-> "none", extends |-> FALSE, rows |-> <<>>]
        ELSE IF refined.raised # "none"
        THEN [raised |-> refined.raised, extends |-> FALSE, rows |-> <<>>]
        ELSE [raised |-> "none", extends |-> TRUE, rows |-> refined.value]

\* get_day_html fails: requests raises and the exception leaves do_task; the
\* executor keeps it in the future, which nobody reads.
TaskNetworkError(i) ==
    /\ tasks[i].st = "fetching"
    /\ tasks' = [tasks EXCEPT ![i].st = "raised", ![i].exc = "RequestException"]
    /\ UNCHANGED <<pc, cfg, session_id, login, error, current_date, all_dates, fetched, all_courses,
                   calendar, file, cls, prs>>

\* get_day_html returns a page; parse_courses and refine_courses run on it.
TaskResponse(i) ==
    /\ tasks[i].st = "fetching"
    /\ \E html_content \in Pages(tasks[i].date) :
          LET r == Pipeline(tasks[i].date, html_content, cfg.timezone)
          IN  tasks' = [tasks EXCEPT
                  ![i].html_content = html_content,
                  ![i].exc = r.raised,
                  ![i].refined_courses = r.rows,
                  ![i].st = IF r.raised # "none" THEN "raised"
                            ELSE IF r.extends THEN "extend" ELSE "done"]
    /\ UNCHANGED <<pc, cfg, session_id, login, error, current_date, all_dates, fetched, all_courses,
                   calendar, file, cls, prs>>

\* all_courses = refined_courses, an assignment where the code extends.
extend_overwrite(list, items) == items

\* list.extend(items): one step under the interpreter lock.
extend(list, items) == list \o items

\* Lines 408-410: the extend and the progress update.
TaskExtend(i) ==
    /\ tasks[i].st = "extend"
    /\ all_courses' = extend(all_courses, tasks[i].refined_courses)
    /\ tasks' = [tasks EXCEPT ![i].st = "done"]
    /\ UNCHANGED <<pc, cfg, session_id, login, error, current_date, all_dates, fetched, calendar,
                   file, cls, prs>>

---------------------------------------------------------------------------
(* main after the pool.                                                    *)

\* The end of the with block as shutdown(wait=False) would leave it: main goes
\* on while work items are queued or running.
JoinNoWait ==
    /\ pc = "join"
    /\ pc' = "calendar"
    /\ UNCHANGED <<cfg, session_id, login, error, current_date, all_dates, tasks, fetched, all_courses,
                   calendar, file, cls, prs>>

\* The end of the with block of line 412: shutdown(wait=True) returns when
\* every work item has run; exceptions kept in the futures are not raised.
Join ==
    /\ pc = "join"
    /\ \A i \in 1..Len(tasks) : Finished(i)
    /\ pc' = "calendar"
    /\ UNCHANGED <<cfg, session_id, login, error, current_date, all_dates, tasks, fetched, all_courses,
                   calendar, file, cls, prs>>

\* Line 431.
CreateCalendar ==
    /\ pc = "calendar"
    /\ calendar' = create_calendar(all_courses)
    /\ pc' = "write"
    /\ UNCHANGED <<cfg, session_id, login, error, current_date, all_dates, tasks, fetched, all_courses,
                   file, cls, prs>>

\* Lines 433-436.
WriteFile ==
    /\ pc = "write"
    /\ file' = [written |-> TRUE, events |-> calendar]
    /\ pc' = "done"
    /\ UNCHANGED <<cfg, session_id, login, error, current_date, all_dates, tasks, fetched, all_courses,
                   calendar, cls, prs>>

NoFile == [written |-> FALSE, events |-> <<>>]
Idle == [stage |-> "idle"]

Init ==
    /\ pc = "auth"
    /\ cfg \in Configs
    /\ session_id \in BOOLEAN
    /\ login \in (IF session_id THEN {NoLogin} ELSE Logins)
    /\ error = "none"
    /\ current_date = cfg.start_date
    /\ all_dates = <<>>
    /\ tasks = <<>>
    /\ fetched = <<>>
    /\ all_courses = <<>>
    /\ calendar = <<>>
    /\ file = NoFile
    /\ cls = Idle
    /\ prs = Idle

Next ==
    \/ Authenticate
    \/ LoopDates
    \/ Submit
    \/ \E i \in 1..Len(tasks) : TaskStart(i)
    \/ \E i \in 1..Len(tasks) : TaskNetworkError(i)
    \/ \E i \in 1..Len(tasks) : TaskResponse(i)
    \/ \E i \in 1..Len(tasks) : TaskExtend(i)
    \/ Join
    \/ CreateCalendar
    \/ WriteFile

Spec == Init /\ [][Next]_vars

---------------------------------------------------------------------------
(* The classifier of create_calendar on its own: the title and the tag of  *)
(* one course name, and the title correction applied to its own output.    *)

Words ==
    << <<"a", "p">>, <<"A", "P">>, <<"c", "a", "l", "c", "u", "l", "u", "s">>, <<"b", "i", "o", "l", "o", "g", "y">>, <<"i", "b">>, <<"i", "i">>, <<"i", "i", "i">>, <<"i", "v">>,
       <<"a", "m", "e", "r", "i", "c", "a", "n">>, <<"e", "n", "v", "i", "r", "o", "n", "m", "e", "n", "t", "a", "l">>, <<"s", "c", "i", "e", "n", "c", "e">>, <<"a", "r", "t">>, <<"p", "a", "r", "t", "i", "a", "l">>, <<"2", "n", "d">> >>

RECURSIVE NamesOf(_)
\* The names of n words, separated by one space.
NamesOf(n) ==
    IF n = 1 THEN {Words[i] : i \in 1..Len(Words)}
    ELSE {a \o <<" ">> \o Words[i] : a \in NamesOf(n - 1), i \in 1..Len(Words)}

CourseNames == UNION {NamesOf(n) : n \in 1..MaxWords}

MainOff ==
    /\ pc = "off"
    /\ cfg = [start_date |-> BaseDate, end_date |-> BaseDate,
              timezone |-> "America/New_York"]
    /\ session_id = TRUE
    /\ login = NoLogin
    /\ error = "none"
    /\ current_date = BaseDate
    /\ all_dates = <<>>
    /\ tasks = <<>>
    /\ fetched = <<>>
    /\ all_courses = <<>>
    /\ calendar = <<>>
    /\ file = NoFile

InitClassify ==
    /\ MainOff
    /\ prs = Idle
    /\ \E n \in CourseNames :
          cls = [stage |-> "name", course_name |-> n, fancy |-> <<>>,
                 emoji |-> "", again |-> <<>>]

\* Lines 232-244 on the course name.
FancyName ==
    /\ cls.stage = "name"
    /\ cls' = [cls EXCEPT !.stage = "fancy",
                          !.fancy = course_name_fancy(cls.course_name)]
    /\ UNCHANGED <<mainVars, prs>>

\* Lines 246-304 on the title.
Classify ==
    /\ cls.stage = "fancy"
    /\ cls' = [cls EXCEPT !.stage = "tagged", !.emoji = class_emoji(cls.fancy)]
    /\ UNCHANGED <<mainVars, prs>>

\* Lines 232-244 once more, on the title they produced.
FancyAgain ==
    /\ cls.stage = "tagged"
    /\ cls' = [cls EXCEPT !.stage = "again", !.again = course_name_fancy(cls.fancy)]
    /\ UNCHANGED <<mainVars, prs>>

NextClassify == FancyName \/ Classify \/ FancyAgain

SpecClassify == InitClassify /\ [][NextClassify]_vars

---------------------------------------------------------------------------
(* parse_courses and refine_courses on their own, on a wider set of pages. *)

Times(block, start, end) == <<block, start, end>>
GoodTimes == Times(<<"4">>, <<" ", "1", "0", ":", "1", "0", "A", "M", " ">>, <<"1", "1", ":", "0", "0", "a", "m">>)

StrNode(text) == [kind |-> "str", text |-> text, style |-> <<>>, children |-> <<>>]

RowSamples ==
    << BiologyRow,
       BadTimeRow,
       Row(3, GoodTimes, CourseCell(<<"s", "p", "a", "c", "e", "r">>, <<>>, <<>>)),
       Row(2, <<<<"5">>, <<"1", ":", "0", "5", "P", "M">>>>, CourseCell(<<"a", "r", "t">>, <<"L", "e", "e">>, <<"R", "o", "o", "m", ":", " ", "7">>)),
       Row(2, GoodTimes, EmptyCell),
       Row(2, GoodTimes, TextCell(<<"\n", "S", "t", "u", "d", "y", " ", "H", "a", "l", "l", "\n", "M", "s", ".", " ", "R", "a", "y", "\n", "R", "o", "o", "m", ":", " ", "C", "a", "f", "e", "t", "e", "r", "i", "a", "\n">>)),
       Row(2, GoodTimes, TextCell(<<>>)),
       Row(2, GoodTimes, TextCell(<<"L", "u", "n", "c", "h">>)),
       Row(2, GoodTimes, TextCell(<<"\n", "\n", "M", "s", ".", " ", "R", "a", "y">>)),
       Row(2, GoodTimes, Regular(<<>>)),
       Row(2, GoodTimes, Regular(<<Block(<<>>, <<>>)>>)),
       Row(2, GoodTimes, Regular(<<Block(<<"c", "o", "l", "o", "r", ":", " ", "r", "e", "d">>, <<Child(<<"b">>, <<>>)>>)>>)),
       Row(2, GoodTimes, Regular(<<StrNode(<<"A", "s", "s", "e", "m", "b", "l", "y">>)>>)) >>

RECURSIVE RowSeqs(_)
RowSeqs(n) ==
    IF n = 0 THEN {<<>>}
    ELSE {Append(r, RowSamples[i]) : r \in RowSeqs(n - 1), i \in 1..Len(RowSamples)}

HeaderSamples ==
    { NoHeader,
      DayHeader(<<"D", "a", "y", " ", "1">>, BaseDate),
      Header(<<" ", " ", "A", " ", "D", "a", "y", " ", "(", "9", "/", "3", "/", "2", "0", "2", "4", ")", "\n">>),
      DayHeader(<<"S", "c", "h", "o", "o", "l", " ", "C", "l", "o", "s", "e", "d">>, BaseDate),
      Header(<<"H", "o", "l", "i", "d", "a", "y">>),
      Header(<<>>) }

ParsePages ==
    { Page(c, h, r) : c \in BOOLEAN, h \in HeaderSamples,
                      r \in UNION {RowSeqs(n) : n \in 0..MaxRows} }

NoResult == Raised("none")

InitParse ==
    /\ MainOff
    /\ cls = Idle
    /\ \E p \in ParsePages :
          prs = [stage |-> "page", html_content |-> p, parsed |-> NoResult,
                 refined |-> [raised |-> "none", value |-> <<>>]]

\* parse_courses on the page.
ParsePage ==
    /\ prs.stage = "page"
    /\ prs' = [prs EXCEPT !.stage = "parsed",
                          !.parsed = parse_courses(prs.html_content)]
    /\ UNCHANGED <<mainVars, cls>>

\* Lines 406-407 on what parse_courses returned, for the date of the header.
RefinePage ==
    /\ prs.stage = "parsed"
    /\ prs.parsed.raised = "none"
    /\ contributes(prs.parsed.schedule_name, prs.parsed.courses)
    /\ prs' = [prs EXCEPT !.stage = "refined",
                          !.refined = refine_courses(prs.parsed.schedule_date,
                                                     prs.parsed.courses,
                                                     "America/New_York")]
    /\ UNCHANGED <<mainVars, cls>>

NextParse == ParsePage \/ RefinePage

SpecParse == InitParse /\ [][NextParse]_vars

---------------------------------------------------------------------------
(* Properties.                                                             *)

Range(s) == {s[i] : i \in 1..Len(s)}
Count(s, x) == Cardinality({i \in 1..Len(s) : s[i] = x})
\* The multiset of the elements of a sequence.
BagOfSeq(s) == [x \in Range(s) |-> Count(s, x)]

RECURSIVE Concat(_, _)
\* f(1) \o ... \o f(n)
Concat(f, n) == IF n = 0 THEN <<>> ELSE Concat(f, n - 1) \o f[n]

AfterPool == pc \in {"calendar", "write", "done"}
SomeTaskRaised == \E i \in 1..Len(tasks) : tasks[i].st = "raised"

\* C1: when a fetch task raises (a network failure, or a failure in
\* parse_courses or refine_courses), the run ends there: main does not go on
\* to build the calendar, and no output file is written.
C1_FailureStopsRun ==
    SomeTaskRaised => ~AfterPool /\ ~file.written

RECURSIVE DateRange(_, _)
\* start, start + 1 day, ..., end
DateRange(start, end) ==
    IF DateLE(start, end) THEN <<start>> \o DateRange(AddDay(start), end) ELSE <<>>

\* C2: for start_date <= end_date, once main has submitted its tasks there is
\* exactly one task per date of start_date .. end_date, and once they have
\* run the dates asked of the portal are exactly those, each once.
C2_OneTaskPerDateInRange ==
    (pc \in {"join", "calendar", "write", "done"}
        /\ DateLE(cfg.start_date, cfg.end_date)) =>
        /\ [i \in 1..Len(tasks) |-> tasks[i].date]
              = DateRange(cfg.start_date, cfg.end_date)
        /\ AfterPool =>
              BagOfSeq(fetched)
                 = BagOfSeq([i \in 1..Len(DateRange(cfg.start_date, cfg.end_date)) |->
                               strftime(DateRange(cfg.start_date, cfg.end_date)[i])])

\* The rows a day has to contribute: its refined rows when the page's state is
\* neither "School Closed" nor "No Schedule" and it has a row, none otherwise.
DayRows(task) ==
    LET parsed == parse_courses(task.html_content)
    IN  IF /\ parsed.schedule_name \notin {<<"S", "c", "h", "o", "o", "l", " ", "C", "l", "o", "s", "e", "d">>, <<"N", "o", " ", "S", "c", "h", "e", "d", "u", "l", "e">>}
           /\ Len(parsed.courses) >= 1
        THEN refine_courses(strftime(task.date), parsed.courses, cfg.timezone).value
        ELSE <<>>

AllTasksDone == \A i \in 1..Len(tasks) : tasks[i].st = "done"

\* C3: under every interleaving, once every task has finished without error,
\* all_courses holds, as a multiset, exactly the refined rows of the days that
\* are neither closed nor without schedule and have a row.
C3_PooledRowsExact ==
    (AfterPool /\ AllTasksDone) =>
        BagOfSeq(all_courses)
           = BagOfSeq(Concat([i \in 1..Len(tasks) |-> DayRows(tasks[i])], Len(tasks)))

\* C3 witness: a finished run in which a closed day and two contributing days
\* were fetched, and the later of the two days extended all_courses first.
C3_Witness ==
    /\ pc = "done"
    /\ AllTasksDone
    /\ \E i \in 1..Len(tasks) : tasks[i].html_content.closed
    /\ \E i, j \in 1..Len(tasks) :
          /\ i < j
          /\ tasks[i].refined_courses # <<>>
          /\ tasks[j].refined_courses # <<>>
          /\ all_courses = tasks[j].refined_courses \o tasks[i].refined_courses

LoginWithoutCookie ==
    pc # "auth" /\ ~session_id /\ login.reachable /\ ~login.cookie

NothingFetched == tasks = <<>> /\ fetched = <<>> /\ ~file.written

\* C4 as stated: after a login whose response carries no JSESSIONID cookie,
\* the run has failed with the parameter error and nothing was fetched.
C4_NoCookieBadParameter ==
    LoginWithoutCookie =>
        pc = "failed" /\ error = "BadParameter" /\ NothingFetched

\* C4 amended: after a login whose response carries no JSESSIONID cookie, the
\* run has failed and nothing was fetched; the failure is the parameter error
\* when the status of the response is not an HTTP error, and the HTTP error
\* of raise_for_status when it is.
C4_NoCookieFailsBeforeFetch ==
    LoginWithoutCookie =>
        /\ pc = "failed"
        /\ error = IF login.status >= 400 THEN "HTTPError" ELSE "BadParameter"
        /\ NothingFetched

\* C4 witness: a login answered 302 without the cookie has failed with the
\* parameter error.
C4_Witness ==
    /\ LoginWithoutCookie
    /\ login.status = 302
    /\ error = "BadParameter"
    /\ pc = "failed"

\* Whether the text of a header cell reads "<name> (<date>)".
HeaderFormOk(text) ==
    LET p == rsplit1(strip(text), <<" ">>)
    IN  /\ Len(p) = 2
        /\ p[1] # <<>>
        /\ Len(p[2]) >= 2 /\ p[2][1] = "(" /\ p[2][Len(p[2])] = ")"
        /\ strptime_date(strip_chars(p[2], {"(", ")"})).ok

\* A page of no recognized shape: no "School Closed" cell, and no header cell
\* or one whose text is not "<name> (<date>)".
Unrecognized(page) ==
    /\ ~page.closed
    /\ ~page.header.present \/ ~HeaderFormOk(page.header.text)

\* C5: parse_courses returns for every page, and a page of no recognized
\* shape gives the "No Schedule" state with zero rows.
C5_ParseNeverRaises ==
    prs.stage = "parsed" =>
        /\ prs.parsed.raised = "none"
        /\ Unrecognized(prs.html_content) =>
              /\ prs.parsed.schedule_name = <<"N", "o", " ", "S", "c", "h", "e", "d", "u", "l", "e">>
              /\ prs.parsed.courses = <<>>

\* A page whose rows reach refine_courses with a time that does not parse.
HasMalformedTime(page) ==
    LET parsed == parse_courses(page)
    IN  /\ parsed.raised = "none"
        /\ contributes(parsed.schedule_name, parsed.courses)
        /\ \E k \in 1..Len(parsed.courses) :
              \/ ~strptime_time(parsed.courses[k].start_time).ok
              \/ ~strptime_time(parsed.courses[k].end_time).ok

Answered(task) == task.st \in {"extend", "done", "raised"} /\ task.exc # "RequestException"

\* C6: a day with a row whose start or end time does not parse ends in the
\* ValueError of refine_courses: the task has raised, it holds no refined
\* rows, no row of that day is in all_courses, and the day was asked of the
\* portal once.
C6_MalformedTimeAbortsDay ==
    \A i \in 1..Len(tasks) :
        (Answered(tasks[i]) /\ HasMalformedTime(tasks[i].html_content)) =>
            /\ tasks[i].st = "raised"
            /\ tasks[i].exc = "ValueError"
            /\ tasks[i].refined_courses = <<>>
            /\ \A k \in 1..Len(all_courses) :
                  all_courses[k].start_time.date # tasks[i].date
            /\ Count(fetched, strftime(tasks[i].date)) = 1

\* C6 witness: the run has ended, and a day whose second row has a malformed
\* end time (its first row is well formed) has raised.
C6_Witness ==
    /\ pc = "done"
    /\ \E i \in 1..Len(tasks) :
          /\ tasks[i].st = "raised"
          /\ Len(tasks[i].html_content.rows) = 2
          /\ HasMalformedTime(tasks[i].html_content)
          /\ TimesOk(parse_courses(tasks[i].html_content).courses[1])

\* C7: the rows refined from a page whose header is "<name> (<date>)" lie on
\* that date: start and end of each have the date of the header.
C7_EventsOnHeaderDate ==
    \A i \in 1..Len(tasks) :
        \A k \in 1..Len(tasks[i].refined_courses) :
            LET header == strptime_date(parse_courses(tasks[i].html_content).schedule_date)
                row == tasks[i].refined_courses[k]
            IN  header.ok =>
                    /\ row.start_time.date = header.date
                    /\ row.end_time.date = header.date

\* The rule table of the specification's section 4.3, in its order.
RuleTable ==
    << [keys |-> {<<"A", "P">>, <<"I", "B">>}, tag |-> "books"],
       [keys |-> {<<"M", "a", "t", "h">>, <<"A", "l", "g", "e", "b", "r", "a">>, <<"G", "e", "o", "m", "e", "t", "r", "y">>, <<"C", "a", "l", "c", "u", "l", "u", "s">>, <<"S", "t", "a", "t", "i", "s", "t", "i", "c", "s">>,
                  <<"P", "r", "e", "c", "a", "l", "c">>}, tag |-> "division"],
       [keys |-> {<<"S", "c", "i", "e", "n", "c", "e">>, <<"B", "i", "o", "l", "o", "g", "y">>, <<"C", "h", "e", "m", "i", "s", "t", "r", "y">>}, tag |-> "microscope"],
       [keys |-> {<<"H", "i", "s", "t", "o", "r", "y">>, <<"G", "e", "o", "g", "r", "a", "p", "h", "y">>}, tag |-> "globe"],
       [keys |-> {<<"E", "n", "g", "l", "i", "s", "h">>, <<"L", "i", "t", "e", "r", "a", "t", "u", "r", "e">>}, tag |-> "memo"],
       [keys |-> {<<"A", "r", "t">>, <<"M", "u", "s", "i", "c">>}, tag |-> "palette"],
       [keys |-> {<<"P", "h", "y", "s", "i", "c", "a", "l", " ", "E", "d", "u", "c", "a", "t", "i", "o", "n">>, <<"P", "E">>}, tag |-> "medal"],
       [keys |-> {<<"C", "o", "m", "p", "u", "t", "e", "r">>, <<"P", "r", "o", "g", "r", "a", "m", "m", "i", "n", "g">>}, tag |-> "laptop"],
       [keys |-> {<<"L", "a", "n", "g", "u", "a", "g", "e">>} \cup Languages, tag |-> "globe_with_meridians"],
       [keys |-> {<<"B", "i", "o", "t", "e", "c", "h", "n", "o", "l", "o", "g", "y">>}, tag |-> "dna"],
       [keys |-> {<<"F", "o", "r", "e", "n", "s", "i", "c", "s">>}, tag |-> "detective"],
       [keys |-> {<<"E", "c", "o", "n", "o", "m", "i", "c", "s">>}, tag |-> "chart_increasing"],
       [keys |-> {<<"P", "s", "y", "c", "h", "o", "l", "o", "g", "y">>}, tag |-> "brain"],
       [keys |-> {<<"E", "n", "g", "i", "n", "e", "e", "r", "i", "n", "g">>}, tag |-> "tools"],
       [keys |-> {<<"E", "n", "v", "i", "r", "o", "n", "m", "e", "n", "t", "a", "l", " ", "S", "c", "i", "e", "n", "c", "e">>}, tag |-> "seedling"],
       [keys |-> {<<"P", "h", "i", "l", "o", "s", "o", "p", "h", "y">>}, tag |-> "thinking_face"],
       [keys |-> {<<"B", "u", "s", "i", "n", "e", "s", "s">>}, tag |-> "briefcase"],
       [keys |-> {<<"L", "a", "w">>}, tag |-> "scales"],
       [keys |-> {<<"M", "e", "d", "i", "c", "i", "n", "e">>}, tag |-> "stethoscope"],
       [keys |-> {<<"L", "u", "n", "c", "h">>}, tag |-> "fork_and_knife"],
       [keys |-> {<<"S", "t", "u", "d", "y", " ", "H", "a", "l", "l">>}, tag |-> "books"],
       [keys |-> {<<"F", "r", "e", "e">>}, tag |-> "clock"],
       [keys |-> {<<"A", "s", "s", "e", "m", "b", "l", "y">>}, tag |-> "party"],
       [keys |-> {<<"A", "d", "v", "i", "s", "o", "r", "y">>}, tag |-> "people"],
       [keys |-> {<<"H", "o", "m", "e", "r", "o", "o", "m">>}, tag |-> "house"],
       [keys |-> {<<"M", "e", "e", "t", "i", "n", "g">>}, tag |-> "people"],
       [keys |-> {<<"B", "r", "e", "a", "k">>}, tag |-> "coffee"] >>

Matches(rule, name) == \E key \in rule.keys : contains(name, key)

\* The tag of the first rule of the table that matches, the default otherwise.
FirstMatch(name) ==
    IF \E r \in 1..Len(RuleTable) : Matches(RuleTable[r], name)
    THEN RuleTable[CHOOSE r \in 1..Len(RuleTable) :
                      /\ Matches(RuleTable[r], name)
                      /\ \A q \in 1..(r - 1) : ~Matches(RuleTable[q], name)].tag
    ELSE "graduation_cap"

\* C8: the tag of a title is the tag of the first rule of the table, in its
\* order, with a keyword contained in the title, and the default tag when no
\* rule matches; "AP Calculus" gets the books tag.
C8_TagIsFirstMatch ==
    cls.stage \in {"tagged", "again"} =>
        /\ cls.emoji = FirstMatch(cls.fancy)
        /\ cls.fancy = <<"A", "P", " ", "C", "a", "l", "c", "u", "l", "u", "s">> => cls.emoji = "books"

\* C8 witness: "ap calculus" was titled "AP Calculus" and tagged books.
C8_Witness ==
    /\ cls.stage = "tagged"
    /\ cls.course_name = <<"a", "p", " ", "c", "a", "l", "c", "u", "l", "u", "s">>
    /\ cls.fancy = <<"A", "P", " ", "C", "a", "l", "c", "u", "l", "u", "s">>
    /\ cls.emoji = "books"

\* C9: the title correction applied to its own output returns that output.
C9_TitleIdempotent ==
    cls.stage = "again" => cls.again = cls.fancy

\* C9 witness: "ap biology" became "AP Biology", and "AP Biology" stayed.
C9_Witness ==
    /\ cls.stage = "again"
    /\ cls.course_name = <<"a", "p", " ", "b", "i", "o", "l", "o", "g", "y">>
    /\ cls.fancy = <<"A", "P", " ", "B", "i", "o", "l", "o", "g", "y">>
    /\ cls.again = <<"A", "P", " ", "B", "i", "o", "l", "o", "g", "y">>

\* C10: a two-cell row with fewer than three sub-elements in its first cell,
\* or with an empty course name, is skipped without raising, so a page under
\* a well-formed header whose rows are all well-shaped or of these two kinds
\* is parsed without raising, and every record returned has a course name.
C10_RowsSkippedNotRaised ==
    prs.stage = "parsed" =>
        /\ prs.parsed.raised = "none" =>
              \A k \in 1..Len(prs.parsed.courses) :
                  prs.parsed.courses[k].course_name # <<>>
        /\ (/\ ~prs.html_content.closed
            /\ prs.html_content.header.present
            /\ HeaderFormOk(prs.html_content.header.text)
            /\ \A k \in 1..Len(prs.html_content.rows) :
                  LET row == prs.html_content.rows[k]
                  IN  row.ncells = 2 /\ Len(row.time_info) < 3)
           => prs.parsed.raised = "none" /\ prs.parsed.courses = <<>>

\* C11: create_calendar is called, and the file written, only after every
\* submitted task has finished, done or raised: from then on every date of
\* all_dates has a task and none is queued or running, the calendar built is
\* the calendar of the current all_courses (no task extended it afterwards),
\* and the file written holds that calendar.
C11_CalendarAfterAllTasks ==
    /\ AfterPool =>
          /\ Len(tasks) = Len(all_dates)
          /\ \A i \in 1..Len(tasks) : tasks[i].st \in {"done", "raised"}
    /\ pc \in {"write", "done"} => calendar = create_calendar(all_courses)
    /\ file.written => pc = "done" /\ file.events = create_calendar(all_courses)

\* C11 witness: the file is written with an event, after three tasks of which
\* one raised and one extended all_courses.
C11_Witness ==
    /\ pc = "done"
    /\ file.written
    /\ Len(tasks) = 3
    /\ Len(file.events) >= 1
    /\ \E i \in 1..Len(tasks) : tasks[i].st = "raised"
    /\ \E i \in 1..Len(tasks) :
          tasks[i].st = "done" /\ tasks[i].refined_courses # <<>>

=============================================================================
